---------------------------- MODULE Spec2Model ----------------------------
(***************************************************************************)
(* A model of the workshop notebooks:                                      *)
(*   3_etl_with_duckdb_part_2/etl_with_duckdb_answers.ipynb   (SpecEtl)    *)
(*       read, filter, project, write the minilob hive, read it back; and  *)
(*       the copy of the hive into minilob.parquet of 6_smallpond          *)
(*       with the smallpond query on it                                    *)
(*   5_etl_with_ray_data/etl_with_ray_data.ipynb              (SpecRay)    *)
(*       the three transform strategies run over `dataset`                 *)
(*   the cells of all notebooks that make or use a DuckDB connection       *)
(*                                                            (SpecConn)   *)
(*   with Print_time(): ... around a body that may raise      (SpecTimer)  *)
(*                                                                         *)
(* Cell values are tagged records so that values of different Python types *)
(* can be compared: Num (ints and floats, as exact fractions), Str, Null,  *)
(* and the symbolic results of np.cos / np.sin.                            *)
(***************************************************************************)
EXTENDS Integers, Sequences, FiniteSets, TLC

(***************************************************************************)
(* Bounds of the model.                                                    *)
(***************************************************************************)
\* The clock of the model ticks TicksPerSec times a second.  The notebooks'
\* clock ticks 10**9 times a second (nanoseconds); 24 * 3600 * 10**9 does not
\* fit the model checker's integers, so time is measured in coarser ticks.
TicksPerSec == 1

\* The largest number of records of `dataset`.
MaxRecs == 2

\* The largest number of rows of the source parquet files.
MaxRows == 2

\* The last reading of time.perf_counter(), and the number of with blocks.
MaxClock == 3

MaxBlocks == 2

(***************************************************************************)
(* Values.                                                                 *)
(***************************************************************************)
RECURSIVE GCD(_, _)
GCD(a, b) == IF b = 0 THEN a ELSE GCD(b, a % b)

Abs(n) == IF n < 0 THEN -n ELSE n

\* The number n/d (d > 0), in lowest terms.
Num(n, d) ==
    LET g == GCD(Abs(n), d)
    IN  [t |-> "num", n |-> n \div g, d |-> d \div g]

Whole(n) == Num(n, 1)

Plus(a, b) == Num(a.n * b.d + b.n * a.d, a.d * b.d)

Over(a, k) == Num(a.n, a.d * k)

Str(s) == [t |-> "str", s |-> s]

\* None / NaN: a missing value.
Null == [t |-> "null"]

\* An angle of x radians, and an angle of 2*pi*x radians (x turns).  The two
\* denote the same angle only for x = 0, x being a fraction.
Radians(x) == [unit |-> IF x.n = 0 THEN "turn" ELSE "rad", x |-> x]

TwoPiTimes(x) == [unit |-> "turn", x |-> x]

np_cos(a) == [t |-> "cos", a |-> a]

np_sin(a) == [t |-> "sin", a |-> a]

\* Python's r | d on dicts: the keys of both, d's values winning.
Merge(r, d) ==
    [k \in DOMAIN r \cup DOMAIN d |-> IF k \in DOMAIN d THEN d[k] ELSE r[k]]

(***************************************************************************)
(* 64-bit integers and their quotients.  The raw prices, the sentinel and  *)
(* the filter's threshold exceed the model checker's integers, so a raw    *)
(* value is held as its decimal digits, most significant first.            *)
(***************************************************************************)
RECURSIVE Digits(_)
Digits(n) == IF n < 10 THEN <<n>> ELSE Digits(n \div 10) \o <<n % 10>>

Zeros(k) == [i \in 1..k |-> 0]

\* m * 10^e, m > 0
Sci(m, e) == Digits(m) \o Zeros(e)

BigInt(d) == [t |-> "int64", d |-> d]

\* a < b, of two digit sequences without leading zeros
Less(a, b) ==
    \/ Len(a) < Len(b)
    \/ /\ Len(a) = Len(b)
       /\ \E k \in 1..Len(a) :
            /\ a[k] < b[k]
            /\ \A j \in 1..(k - 1) : a[j] = b[j]

\* The decimal number with digits d, the last e of them after the point,
\* without trailing zeros after the point.
RECURSIVE Dec(_, _)
Dec(d, e) ==
    IF e > 0 /\ d[Len(d)] = 0
    THEN Dec(IF Len(d) = 1 THEN <<0>> ELSE SubSeq(d, 1, Len(d) - 1), e - 1)
    ELSE [t |-> "double", d |-> d, e |-> e]

RECURSIVE Log10(_)
Log10(n) == IF n < 10 THEN 0 ELSE 1 + Log10(n \div 10)

\* a / n in SQL, n a power of ten: the quotient as a DOUBLE.
DivideBy(a, n) == Dec(a.d, Log10(n))

\* a < b, of two DOUBLEs that are not negative
DecLess(a, b) ==
    LET e == IF a.e < b.e THEN b.e ELSE a.e
    IN  IF a.d[1] = 0 THEN b.d[1] # 0
        ELSE IF b.d[1] = 0 THEN FALSE
        ELSE Less(a.d \o Zeros(e - a.e), b.d \o Zeros(e - b.e))

(***************************************************************************)
(* Ticker symbols, as character sequences.                                 *)
(***************************************************************************)
CSCO == <<"C", "S", "C", "O">>

LSTR == <<"L", "S", "T", "R">>

NFLX == <<"N", "F", "L", "X">>

SHLS == <<"S", "H", "L", "S">>

SOFI == <<"S", "O", "F", "I">>

WING == <<"W", "I", "N", "G">>

\* A ticker that the lookup table does not hold.
AAPL == <<"A", "A", "P", "L">>

(***************************************************************************)
(* 3_etl_with_duckdb_part_2: the queries.  A relation is a set of rows;    *)
(* every row carries in `src` the position of the source row it derives    *)
(* from, which keeps equal rows apart as SQL's bags do.                    *)
(***************************************************************************)
symbols == <<CSCO, LSTR, NFLX, SHLS, SOFI, WING>>

\* The value that marks a price that is not set: 9223372036854775807.
Sentinel == BigInt(<<9, 2, 2, 3, 3, 7, 2, 0, 3, 6, 8, 5, 4, 7, 7, 5, 8, 0, 7>>)

\* The filter with the test of one side only.
rel2_query_one_side(r) ==
    {x \in r : Less(x.buyside_price_00.d, Sci(92, 12))}

\* The filter that keeps a row when either test holds.
rel2_query_either(r) ==
    {x \in r : \/ Less(x.buyside_price_00.d, Sci(92, 12))
               \/ Less(x.sellside_price_00.d, Sci(92, 12))}

\* SELECT * FROM rel WHERE buyside_price_00 < 9.2e13
\*                     AND sellside_price_00 < 9.2e13
rel2_query(r) ==
    {x \in r : /\ Less(x.buyside_price_00.d, Sci(92, 12))
               /\ Less(x.sellside_price_00.d, Sci(92, 12))}

\* SELECT time_stamp, symbol, buyside_price_00 / 10000 AS buyside_price,
\*        sellside_price_00 / 10000 AS sellside_price FROM rel_a
query(rel_a) ==
    { [time_stamp     |-> x.time_stamp,
       symbol         |-> x.symbol,
       buyside_price  |-> DivideBy(x.buyside_price_00, 10000),
       sellside_price |-> DivideBy(x.sellside_price_00, 10000),
       src            |-> x.src] : x \in rel_a }

\* The name of a column, spelled out for the paths of the hive.
Spelled(col) == IF col = "symbol" THEN <<"s", "y", "m", "b", "o", "l">>
                ELSE <<"?">>

\* The key=value segment of the path of a partition.
HivePath(col, v) == Spelled(col) \o <<"=">> \o v

WithoutColumn(x, col) == [k \in DOMAIN x \ {col} |-> x[k]]

\* The partitioned write with the key space declared beforehand: one
\* directory per symbol of the source list.
copy_partition_by_declared(rel_b, col) ==
    [p \in {HivePath(col, symbols[k]) : k \in DOMAIN symbols} |->
        {WithoutColumn(x, col) : x \in {y \in rel_b :
                                        HivePath(col, y[col].s) = p}}]

\* COPY (SELECT * FROM rel_b) TO minilob (..., PARTITION_BY (symbol)): one
\* directory per value of the column met in rel_b; the files do not hold
\* the partition column.
copy_partition_by(rel_b, col) ==
    [p \in {HivePath(col, x[col].s) : x \in rel_b} |->
        {WithoutColumn(x, col) : x \in {y \in rel_b :
                                        HivePath(col, y[col].s) = p}}]

\* The place of the first "=" of a path segment.
EqualsAt(p) ==
    CHOOSE k \in 1..Len(p) :
        p[k] = "=" /\ \A j \in 1..(k - 1) : p[j] # "="

PathKey(p) == SubSeq(p, 1, EqualsAt(p) - 1)

\* The value read from the "=" on.
PathValue_from_equals(p) == SubSeq(p, EqualsAt(p), Len(p))

PathValue(p) == SubSeq(p, EqualsAt(p) + 1, Len(p))

DigitChars == {"0", "1", "2", "3", "4", "5", "6", "7", "8", "9"}

\* The type of a hive column is detected from its values: an integer when
\* they are all digits, a string otherwise.
HiveCast(v) ==
    IF v # <<>> /\ \A k \in 1..Len(v) : v[k] \in DigitChars
    THEN [t |-> "bigint", s |-> v]
    ELSE Str(v)

\* read_parquet('minilob/**/*parquet', hive_partitioning=true): the rows of
\* every file, with the column that its directory names.
read_parquet_hive(dir) ==
    UNION { { Merge(x, IF PathKey(p) = Spelled("symbol")
                       THEN [symbol |-> HiveCast(PathValue(p))]
                       ELSE <<>>) : x \in dir[p] } : p \in DOMAIN dir }

(***************************************************************************)
(* The DuckDB connections of the notebooks.                                *)
(***************************************************************************)

\* duckdb.connect(":memory:"): a database of its own, with no extension
\* loaded and no secret; `did` lists the statements run on it.
duckdb_connect ==
    [installed |-> {}, loaded |-> {}, secrets |-> {}, did |-> <<>>,
     err |-> "none"]

\* A statement on a connection does nothing once an exception is on its way
\* out of the function.
install_extension(c, ext) ==
    IF c.err # "none" THEN c
    ELSE [c EXCEPT !.installed = @ \cup {ext},
                   !.did = Append(@, <<"install_extension", ext>>)]

load_extension(c, ext) ==
    IF c.err # "none" THEN c
    ELSE IF ext \notin c.installed THEN [c EXCEPT !.err = "IOException"]
    ELSE [c EXCEPT !.loaded = @ \cup {ext},
                   !.did = Append(@, <<"load_extension", ext>>)]

\* CREATE SECRET name (TYPE S3, ...): fails when the connection has a secret
\* of this name.
create_secret(c, name) ==
    IF c.err # "none" THEN c
    ELSE IF name \in c.secrets THEN [c EXCEPT !.err = "InvalidInputException"]
    ELSE [c EXCEPT !.secrets = @ \cup {name},
                   !.did = Append(@, <<"CREATE SECRET", name>>)]

\* create_connection with the extension loaded before it is installed.
create_connection_load_first ==
    create_secret(
        install_extension(load_extension(duckdb_connect, "httpfs"), "httpfs"),
        "secret")

create_connection ==
    create_secret(
        load_extension(install_extension(duckdb_connect, "httpfs"), "httpfs"),
        "secret")

\* The cells of a notebook that make a connection or run a query on one, from
\* top to bottom.
Cell(do, name, path) == [do |-> do, name |-> name, path |-> path]

Cells ==
    [basics   |-> <<Cell("create_connection", "conn", ""),
                    Cell("sql", "conn", "s3"),
                    Cell("create_connection", "conn", ""),
                    Cell("sql", "conn", "s3")>>,
     etl      |-> <<Cell("create_connection", "conn", ""),
                    Cell("sql", "conn", "s3"),
                    Cell("connect", "conn2", ""),
                    Cell("sql", "conn2", "local")>>,
     ray      |-> <<Cell("connect", "conn", ""),
                    Cell("sql", "conn", "local")>>,
     exercise |-> <<Cell("create_connection", "conn", ""),
                    Cell("sql", "conn", "s3")>>]

Notebooks == DOMAIN Cells

(***************************************************************************)
(* Print_time, the timing context of the notebooks.  An object is the      *)
(* record of its attributes.                                               *)
(***************************************************************************)

\* A Python bool, and the test `if value:` of a returned value.
Bool(b) == [t |-> "bool", v |-> b]

truthy(v) == v.t = "bool" /\ v.v

\* print(f"Time taken: {self.elapsed:.4f} seconds")
TimeTaken(elapsed) == <<"Time taken: ", elapsed, " seconds">>

\* def __enter__(self): self.start = time.perf_counter(); return self
Print_time_enter(self, perf_counter) ==
    LET self1 == Merge(self, [start |-> perf_counter])
    IN  [self |-> self1, out |-> <<>>, ret |-> self1]

\* An __exit__ that returns True.
Print_time_exit_true(self, perf_counter, exc_type) ==
    LET self1 == Merge(self, [end |-> perf_counter])
        self2 == Merge(self1, [elapsed |-> self1.end - self1.start])
    IN  [self |-> self2, out |-> <<TimeTaken(self2.elapsed)>>,
         ret |-> Bool(TRUE)]

\* def __exit__(self, exc_type, exc_value, traceback): no return statement,
\* so None is returned.
Print_time_exit(self, perf_counter, exc_type) ==
    LET self1 == Merge(self, [end |-> perf_counter])
        self2 == Merge(self1, [elapsed |-> self1.end - self1.start])
    IN  [self |-> self2, out |-> <<TimeTaken(self2.elapsed)>>,
         ret |-> Null]

(***************************************************************************)
(* 6_smallpond: the partitions and the query run on each of them.          *)
(***************************************************************************)

\* df.repartition(npartitions, by_rows=True): the rows of the file in runs of
\* equal length, to within one row.  The file holds the rows of one symbol
\* next to each other, so a cut falls inside the rows of at most one symbol.
repartition_by_rows(rows, npartitions) ==
    LET n == Cardinality(rows)
        shares(first) == {x.symbol : x \in first}
                            \cap {x.symbol : x \in rows \ first}
    IN  IF npartitions # 2 THEN {<<rows>>}
        ELSE { <<first, rows \ first>> :
                 first \in {f \in SUBSET rows :
                              /\ Cardinality(f) \in {n \div 2, (n + 1) \div 2}
                              /\ Cardinality(shares(f)) <= 1} }

\* The least and the greatest of a set of DOUBLEs.
sql_min(vals) == CHOOSE v \in vals : \A w \in vals : ~DecLess(w, v)

sql_max(vals) == CHOOSE v \in vals : \A w \in vals : ~DecLess(v, w)

\* SELECT symbol, min(buyside_price), max(buyside_price) FROM {0}
\* GROUP BY symbol
group_by_symbol(rows) ==
    { [symbol |-> sym,
       min_buyside_price |->
           sql_min({x.buyside_price : x \in {y \in rows : y.symbol = sym}}),
       max_buyside_price |->
           sql_max({x.buyside_price : x \in {y \in rows : y.symbol = sym}})] :
      sym \in {x.symbol : x \in rows} }

\* sp.partial_sql(sql, df): the query is run on every partition of df by
\* itself, and the result holds the rows of every run.
partial_sql(parts) ==
    UNION { {Merge(g, [part |-> k]) : g \in group_by_symbol(parts[k])} :
            k \in DOMAIN parts }

(***************************************************************************)
(* 5_etl_with_ray_data: the transforms.                                    *)
(***************************************************************************)
\* A table that gives two symbols one code.
Symbols_shared_code ==
    (NFLX :> 0) @@ (LSTR :> 1) @@ (SHLS :> 2) @@ (SOFI :> 3) @@ (CSCO :> 0)
    @@ (WING :> 5)

Symbols ==
    (NFLX :> 0) @@ (LSTR :> 1) @@ (SHLS :> 2) @@ (SOFI :> 3) @@ (CSCO :> 4)
    @@ (WING :> 5)

ns_per_day == 24 * 3600 * TicksPerSec

\* The remainder that takes the sign of a, as C's % and numpy's fmod give.
c_fmod(a, n) == IF a < 0 THEN -((-a) % n) ELSE a % n

\* a // n of Python ints, n > 0: the quotient rounded down.
py_floordiv(a, n) == IF a < 0 THEN -(((-a) + n - 1) \div n) ELSE a \div n

\* a % n of Python ints and of int64 columns of pandas:
\* a - n * (a // n), which has the sign of n.
py_mod(a, n) == a - n * py_floordiv(a, n)

\* dict.get(x, default)
dict_get(table, x, default) ==
    IF x \in DOMAIN table THEN Whole(table[x]) ELSE default

\* A call of a stage: what it returns (ret), the state in which it leaves
\* the object it was given (arg), and the exception it raises (err).
Returned(ret, arg) == [ret |-> ret, arg |-> arg, err |-> "none"]

Raised(exc, arg) == [ret |-> Null, arg |-> arg, err |-> exc]

\* encode_timestamp without the reduction to the time of day.
encode_timestamp_no_mod(r) ==
    LET fraction == Num(r.time_stamp.n, ns_per_day)
    IN  Returned(Merge(r, [ts_cos |-> np_cos(TwoPiTimes(fraction)),
                           ts_sin |-> np_sin(TwoPiTimes(fraction))]), r)

encode_timestamp(r) ==
    LET ns_in_day == py_mod(r.time_stamp.n, ns_per_day)
        fraction  == Num(ns_in_day, ns_per_day)
    IN  Returned(Merge(r, [ts_cos |-> np_cos(TwoPiTimes(fraction)),
                           ts_sin |-> np_sin(TwoPiTimes(fraction))]), r)

add_midline(r) ==
    Returned(Merge(r, [midline |->
                Plus(r.buyside_price, Over(r.sellside_price, 2))]), r)

\* encode_symbol with a lookup that falls back on the key:
\* r['symbol'] = Symbols.get(r['symbol'], r['symbol']).
encode_symbol_fallback(r) ==
    LET r2 == [r EXCEPT !.symbol = dict_get(Symbols, r.symbol.s, r.symbol)]
    IN  Returned(r2, r2)

\* r['symbol'] = Symbols[r['symbol']] assigns in the dict it was given and
\* returns that dict; a missing key raises KeyError before the assignment.
encode_symbol(r) ==
    IF r.symbol.s \in DOMAIN Symbols
    THEN LET r2 == [r EXCEPT !.symbol = Whole(Symbols[r.symbol.s])]
         IN  Returned(r2, r2)
    ELSE Raised("KeyError", r)

\* Series.map(dict): a value the dict does not hold becomes NaN.
pandas_map(v, table) ==
    IF v.s \in DOMAIN table THEN Whole(table[v.s]) ELSE Null

\* transform_pandas_batch taking the time of day from the earliest time_stamp
\* of the frame it is given.
transform_pandas_batch_from_first(df) ==
    LET first == CHOOSE t \in {df[i].time_stamp.n : i \in DOMAIN df} :
                     \A i \in DOMAIN df : t <= df[i].time_stamp.n
        row(r) ==
          LET ns_in_day == (r.time_stamp.n - first) % ns_per_day
              fraction  == Num(ns_in_day, ns_per_day)
          IN  Merge(r, [ts_cos  |-> np_cos(TwoPiTimes(fraction)),
                        ts_sin  |-> np_sin(TwoPiTimes(fraction)),
                        midline |-> Over(Plus(r.buyside_price,
                                              r.sellside_price), 2),
                        symbol  |-> pandas_map(r.symbol, Symbols)])
        df2 == [i \in DOMAIN df |-> row(df[i])]
    IN  Returned(df2, df2)

\* The frame is a sequence of rows; the column assignments are made in the
\* frame that was given, which is also what is returned.
transform_pandas_batch(df) ==
    LET row(r) ==
          LET ns_in_day == py_mod(r.time_stamp.n, ns_per_day)
              fraction  == Num(ns_in_day, ns_per_day)
          IN  Merge(r, [ts_cos  |-> np_cos(TwoPiTimes(fraction)),
                        ts_sin  |-> np_sin(TwoPiTimes(fraction)),
                        midline |-> Over(Plus(r.buyside_price,
                                              r.sellside_price), 2),
                        symbol  |-> pandas_map(r.symbol, Symbols)])
        df2 == [i \in DOMAIN df |-> row(df[i])]
    IN  Returned(df2, df2)

\* transform_polars_batch keeping only the leading rows whose symbol the table
\* holds.
transform_polars_batch_drop_nulls(tb) ==
    LET row(r) ==
          LET fraction == Num(r.time_stamp.n % ns_per_day, ns_per_day)
          IN  Merge(r, [midline |-> Over(Plus(r.buyside_price,
                                              r.sellside_price), 2),
                        ts_cos  |-> np_cos(Radians(fraction)),
                        ts_csin |-> np_sin(Radians(fraction)),
                        symbol  |-> dict_get(Symbols, r.symbol.s, Null)])
        kept == {n \in 0..Len(tb) :
                    \A i \in 1..n : tb[i].symbol.s \in DOMAIN Symbols}
        last == CHOOSE n \in kept : \A m \in kept : m <= n
        result == [i \in 1..last |-> row(tb[i])]
    IN  Returned(result, tb)

\* with_columns builds a new frame; the table given is not written to.
transform_polars_batch(tb) ==
    LET row(r) ==
          LET fraction == Num(r.time_stamp.n % ns_per_day, ns_per_day)
          IN  Merge(r, [midline |-> Over(Plus(r.buyside_price,
                                              r.sellside_price), 2),
                        ts_cos  |-> np_cos(Radians(fraction)),
                        ts_csin |-> np_sin(Radians(fraction)),
                        symbol  |-> dict_get(Symbols, r.symbol.s, Null)])
        result == [i \in DOMAIN tb |-> row(tb[i])]
    IN  Returned(result, tb)

(***************************************************************************)
(* The state.                                                              *)
(***************************************************************************)
VARIABLES
    pc,        \* the cell that runs next
    \* 3_etl_with_duckdb_part_2 and the first cell of 6_smallpond
    s3,        \* the rows of the source parquet files
    rel,       \* SELECT * FROM read_parquet([...])
    rel2,      \* rel, filtered
    transformed_relation,
    minilob,   \* the hive directory: path segment -> rows of its file
    readback,  \* conn2's read_parquet('minilob/**/*parquet', hive_partitioning)
    minilob_parquet,   \* the rows of the single file minilob.parquet
    log,       \* the statements run, in order, each with what it raised
    partitions,    \* 6_smallpond: the row sets of df.repartition(2, ...)
    pond_df,   \* 6_smallpond: the rows of df.to_pandas()
    \* 5_etl_with_ray_data
    dataset,   \* the records of `dataset`, as read from the minilob hive
    cut,       \* dataset[1..cut] is the first block, the rest the second
    out_rec,   \* per record: the output of .map(...).map(...).map(...)
    out_pd,    \* per record: the output of map_batches(transform_pandas_batch)
    out_pl,    \* per record: the output of map_batches(transform_polars_batch)
    emitted,   \* per pipeline: the number of records its last stage returned
    calls,     \* the stage calls made: the object given, before and after
    \* the connections of all notebooks
    at,        \* per notebook: the place in Cells of the cell that runs next
    conns,     \* the connections made, in the order of their making
    names,     \* per notebook and name: the connection bound to it, or 0
    queries,   \* the queries run: the connection and the kind of path
    \* with Print_time(): ...
    clock,     \* what time.perf_counter() returns
    phase,     \* "out" of a with block, in its "body", or at its "exit"
    timer,     \* the Print_time object of the block
    stdout,    \* the lines printed
    body_exc,  \* the exception the body of the block raised, or "none"
    caller_exc,    \* the exception that left the with statement, or "none"
    exits,     \* the calls of __exit__ for the block
    blocks     \* the with blocks entered

etlVars ==
    <<s3, rel, rel2, transformed_relation, minilob, readback, minilob_parquet,
      log, partitions, pond_df>>

rayVars == <<dataset, cut, out_rec, out_pd, out_pl, emitted, calls>>

connVars == <<at, conns, names, queries>>

timerVars ==
    <<clock, phase, timer, stdout, body_exc, caller_exc, exits, blocks>>

vars == <<pc, etlVars, rayVars, connVars, timerVars>>

\* No with block has been entered.
NoTimer ==
    /\ clock = 0
    /\ phase = "out"
    /\ timer = <<>>
    /\ stdout = <<>>
    /\ body_exc = "none"
    /\ caller_exc = "none"
    /\ exits = 0
    /\ blocks = 0

\* No cell has made a connection.
NoConnection ==
    /\ at = [nb \in Notebooks |-> 1]
    /\ conns = <<>>
    /\ names = [nb \in Notebooks |-> [conn |-> 0, conn2 |-> 0]]
    /\ queries = {}

\* The ETL notebook has not run.
IdleEtl ==
    /\ s3 = {}
    /\ rel = {}
    /\ rel2 = {}
    /\ transformed_relation = {}
    /\ minilob = <<>>
    /\ readback = {}
    /\ minilob_parquet = {}
    /\ log = <<>>
    /\ partitions = <<>>
    /\ pond_df = {}

(***************************************************************************)
(* 5_etl_with_ray_data: the pipelines.                                     *)
(***************************************************************************)

\* The output of a record that no pipeline has produced yet.
Pending == [t |-> "pending"]

\* The output of a record for which a batch function returned no row.
Dropped == [t |-> "dropped"]

\* The output of a record whose transform raised.
Failure(exc) == [t |-> "error", exc |-> exc]

IsRow(o) == "time_stamp" \in DOMAIN o

IsFailure(o) == "exc" \in DOMAIN o

TimeStamps ==
    {ns_per_day \div 4, ns_per_day + ns_per_day \div 4, -(ns_per_day \div 4)}

Prices == {<<100, 102>>}

DatasetSymbols == {NFLX, CSCO, AAPL}

Records ==
    { [time_stamp     |-> Whole(ts),
       symbol         |-> Str(s),
       buyside_price  |-> Whole(p[1]),
       sellside_price |-> Whole(p[2])] :
      ts \in TimeStamps, s \in DatasetSymbols, p \in Prices }

Rows(n) == [1..n -> Records]

\* Dataset.limit(n): the first n records, all of them if there are fewer.
limit(ds, n) == SubSeq(ds, 1, IF Len(ds) < n THEN Len(ds) ELSE n)

Block(b) == IF b = 1 THEN 1..cut ELSE (cut + 1)..Len(dataset)

\* The rows of block b, as the sequence handed to a batch transform.
Batch(b) == [i \in 1..Cardinality(Block(b)) |->
                dataset[i + (IF b = 1 THEN 0 ELSE cut)]]

Call(stage, before, c) ==
    [stage |-> stage, before |-> before, after |-> c.arg]

NoneEmitted == [rec |-> 0, pandas |-> 0, polars |-> 0]

InitRay ==
    /\ \E n \in 0..MaxRecs : \E base_dataset \in Rows(n) :
          dataset = limit(base_dataset, 100000)
    /\ cut \in {c \in 0..Len(dataset) : c >= 1 \/ Len(dataset) = 0}
    /\ pc = "rec"
    /\ IdleEtl
    /\ NoConnection
    /\ NoTimer
    /\ out_rec = [i \in DOMAIN dataset |-> Pending]
    /\ out_pd = [i \in DOMAIN dataset |-> Pending]
    /\ out_pl = [i \in DOMAIN dataset |-> Pending]
    /\ emitted = NoneEmitted
    /\ calls = {}

RecFailed == \E i \in DOMAIN out_rec : IsFailure(out_rec[i])

\* dataset.map(encode_timestamp).map(add_midline).map(encode_symbol) on one
\* record: map hands each row to the function as a fresh dict.
MapRecord(i) ==
    /\ pc = "rec"
    /\ ~RecFailed
    /\ out_rec[i] = Pending
    /\ LET r  == dataset[i]
           c1 == encode_timestamp(r)
           c2 == add_midline(c1.ret)
           c3 == encode_symbol(c2.ret)
       IN  /\ out_rec' = [out_rec EXCEPT ![i] =
                             IF c3.err = "none" THEN c3.ret
                             ELSE Failure(c3.err)]
           /\ emitted' = [emitted EXCEPT !.rec =
                              IF c3.err = "none" THEN @ + 1 ELSE @]
           /\ calls' = calls \cup {Call("encode_timestamp", r, c1),
                                   Call("add_midline", c1.ret, c2),
                                   Call("encode_symbol", c2.ret, c3)}
    /\ UNCHANGED <<dataset, cut, pc, out_pd, out_pl, etlVars, connVars, timerVars>>

\* The cell of the per-record pipeline ends: every record is mapped, or a
\* record raised.
RecCellEnds ==
    /\ pc = "rec"
    /\ RecFailed \/ \A i \in DOMAIN out_rec : out_rec[i] # Pending
    /\ pc' = "pandas"
    /\ UNCHANGED <<dataset, cut, out_rec, out_pd, out_pl, emitted, calls,
                   etlVars, connVars, timerVars>>

\* map_batches(transform_pandas_batch, batch_format="pandas") on one block:
\* the block is converted to a fresh DataFrame for the call.
MapPandasBatch(b) ==
    /\ pc = "pandas"
    /\ Block(b) # {}
    /\ \A i \in Block(b) : out_pd[i] = Pending
    /\ LET df == Batch(b)
           c  == transform_pandas_batch(df)
           off == IF b = 1 THEN 0 ELSE cut
       IN  /\ out_pd' = [i \in DOMAIN out_pd |->
                            IF i \notin Block(b) THEN out_pd[i]
                            ELSE IF i - off \in DOMAIN c.ret
                                 THEN c.ret[i - off]
                                 ELSE Dropped]
           /\ emitted' = [emitted EXCEPT !.pandas = @ + Len(c.ret)]
           /\ calls' = calls \cup {Call("transform_pandas_batch", df, c)}
    /\ UNCHANGED <<dataset, cut, pc, out_rec, out_pl, etlVars, connVars, timerVars>>

PandasCellEnds ==
    /\ pc = "pandas"
    /\ \A i \in DOMAIN out_pd : out_pd[i] # Pending
    /\ pc' = "polars"
    /\ UNCHANGED <<dataset, cut, out_rec, out_pd, out_pl, emitted, calls,
                   etlVars, connVars, timerVars>>

\* map_batches(transform_polars_batch, batch_format="pyarrow") on one block.
MapPolarsBatch(b) ==
    /\ pc = "polars"
    /\ Block(b) # {}
    /\ \A i \in Block(b) : out_pl[i] = Pending
    /\ LET tb == Batch(b)
           c  == transform_polars_batch(tb)
           off == IF b = 1 THEN 0 ELSE cut
       IN  /\ out_pl' = [i \in DOMAIN out_pl |->
                            IF i \notin Block(b) THEN out_pl[i]
                            ELSE IF i - off \in DOMAIN c.ret
                                 THEN c.ret[i - off]
                                 ELSE Dropped]
           /\ emitted' = [emitted EXCEPT !.polars = @ + Len(c.ret)]
           /\ calls' = calls \cup {Call("transform_polars_batch", tb, c)}
    /\ UNCHANGED <<dataset, cut, pc, out_rec, out_pd, etlVars, connVars, timerVars>>

PolarsCellEnds ==
    /\ pc = "polars"
    /\ \A i \in DOMAIN out_pl : out_pl[i] # Pending
    /\ pc' = "done"
    /\ UNCHANGED <<dataset, cut, out_rec, out_pd, out_pl, emitted, calls,
                   etlVars, connVars, timerVars>>

NextRay ==
    \/ \E i \in DOMAIN dataset : MapRecord(i)
    \/ RecCellEnds
    \/ \E b \in {1, 2} : MapPandasBatch(b)
    \/ PandasCellEnds
    \/ \E b \in {1, 2} : MapPolarsBatch(b)
    \/ PolarsCellEnds

SpecRay == InitRay /\ [][NextRay]_vars

(***************************************************************************)
(* 3_etl_with_duckdb_part_2: the cells.                                    *)
(***************************************************************************)
SourceSymbols == {symbols[1], symbols[3]}

RawBuys ==
    {BigInt(Digits(1000000)), BigInt(Digits(1010000)), BigInt(Sci(1, 14)),
     Sentinel}

RawSells == {BigInt(Digits(1020000)), Sentinel}

SourceRows ==
    { [time_stamp        |-> Whole(0),
       symbol            |-> Str(s),
       buyside_price_00  |-> b,
       sellside_price_00 |-> a] :
      s \in SourceSymbols, b \in RawBuys, a \in RawSells }

\* The Ray notebook has not run.
IdleRay ==
    /\ dataset = <<>>
    /\ cut = 0
    /\ out_rec = <<>>
    /\ out_pd = <<>>
    /\ out_pl = <<>>
    /\ emitted = NoneEmitted
    /\ calls = {}

InitEtl ==
    /\ \E n \in 0..MaxRows : \E f \in [1..n -> SourceRows] :
          s3 = {Merge(f[i], [src |-> i]) : i \in 1..n}
    /\ pc = "read"
    /\ rel = {}
    /\ rel2 = {}
    /\ transformed_relation = {}
    /\ minilob = <<>>
    /\ readback = {}
    /\ minilob_parquet = {}
    /\ log = <<>>
    /\ partitions = <<>>
    /\ pond_df = {}
    /\ IdleRay
    /\ NoConnection
    /\ NoTimer

\* A statement that was run, with the exception it raised or "none".
Ran(stmt, exc) == [stmt |-> stmt, exc |-> exc]

\* The statement has run without raising, so the name it assigns is bound
\* and the file it writes is there.
Succeeded(stmt) == \E k \in DOMAIN log : log[k] = Ran(stmt, "none")

\* What a statement that queries the source files through the name assigned
\* by `needs` can do: raise NameError when the name is not bound, and
\* otherwise return or raise the error of a failed read of S3.
Outcomes(needs) ==
    IF needs = "" \/ Succeeded(needs) THEN {"none", "IOException"}
    ELSE {"NameError"}

\* What a read of files matching a pattern does: it raises when no file
\* matches.
GlobOutcome(found) == IF found THEN "none" ELSE "IOException"

\* The read of the source, run again after it has raised.
ReadParquet_again ==
    /\ pc = "read"
    /\ \E exc \in Outcomes("") :
          /\ log' = Append(log, Ran("read", exc))
          /\ rel' = IF exc = "none" THEN s3 ELSE rel
          /\ pc' = IF exc = "none" THEN "filter" ELSE "read"
    /\ UNCHANGED <<s3, rel2, transformed_relation, minilob, readback,
                   minilob_parquet, partitions, pond_df, rayVars, connVars, timerVars>>

\* rel = conn.sql("SELECT * FROM read_parquet([...])")
ReadParquet ==
    /\ pc = "read"
    /\ \E exc \in Outcomes("") :
          /\ log' = Append(log, Ran("read", exc))
          /\ rel' = IF exc = "none" THEN s3 ELSE rel
    /\ pc' = "filter"
    /\ UNCHANGED <<s3, rel2, transformed_relation, minilob, readback,
                   minilob_parquet, partitions, pond_df, rayVars, connVars, timerVars>>

\* rel2 = rel.query("rel", "SELECT * FROM rel WHERE ...")
FilterRel ==
    /\ pc = "filter"
    /\ \E exc \in Outcomes("read") :
          /\ log' = Append(log, Ran("filter", exc))
          /\ rel2' = IF exc = "none" THEN rel2_query(rel) ELSE rel2
    /\ pc' = "test"
    /\ UNCHANGED <<s3, rel, transformed_relation, minilob, readback,
                   minilob_parquet, partitions, pond_df, rayVars, connVars, timerVars>>

\* transformed_relation = rel2.limit(10).query('rel_a', query): any 10 rows
\* of rel2, or all of them when there are fewer.
TestQuery ==
    /\ pc = "test"
    /\ \E exc \in Outcomes("filter") :
          /\ log' = Append(log, Ran("test", exc))
          /\ IF exc = "none"
             THEN \E some \in SUBSET rel2 :
                     /\ Cardinality(some) = IF Cardinality(rel2) < 10
                                            THEN Cardinality(rel2) ELSE 10
                     /\ transformed_relation' = query(some)
             ELSE UNCHANGED transformed_relation
    /\ pc' = "copy"
    /\ UNCHANGED <<s3, rel, rel2, minilob, readback, minilob_parquet,
                   partitions, pond_df, rayVars, connVars, timerVars>>

\* transformed_relation = rel2.query('rel_a', query), and the COPY of it
\* TO minilob, which is not reached when the first statement raises.
CopyToHive ==
    /\ pc = "copy"
    /\ \E exc \in Outcomes("filter") :
          IF exc = "none"
          THEN /\ log' = log \o <<Ran("transform", exc), Ran("write", "none")>>
               /\ transformed_relation' = query(rel2)
               /\ minilob' = copy_partition_by(transformed_relation', "symbol")
          ELSE /\ log' = Append(log, Ran("transform", exc))
               /\ UNCHANGED <<transformed_relation, minilob>>
    /\ pc' = "check"
    /\ UNCHANGED <<s3, rel, rel2, readback, minilob_parquet, partitions,
                   pond_df, rayVars, connVars, timerVars>>

\* conn2.sql("SELECT ... FROM read_parquet('minilob/**/*parquet',
\* hive_partitioning=true)")
CheckHive ==
    /\ pc = "check"
    /\ LET exc == GlobOutcome(DOMAIN minilob # {})
       IN  /\ log' = Append(log, Ran("check", exc))
           /\ readback' = IF exc = "none" THEN read_parquet_hive(minilob)
                          ELSE readback
    /\ pc' = "unhive"
    /\ UNCHANGED <<s3, rel, rel2, transformed_relation, minilob,
                   minilob_parquet, partitions, pond_df, rayVars, connVars, timerVars>>

\* 6_smallpond: COPY (SELECT * FROM read_parquet([...minilob/**/*parquet],
\* hive_partitioning=true)) TO minilob.parquet
Unhive ==
    /\ pc = "unhive"
    /\ LET exc == GlobOutcome(DOMAIN minilob # {})
       IN  /\ log' = Append(log, Ran("unhive", exc))
           /\ minilob_parquet' = IF exc = "none"
                                 THEN read_parquet_hive(minilob)
                                 ELSE minilob_parquet
    /\ pc' = "repartition"
    /\ UNCHANGED <<s3, rel, rel2, transformed_relation, minilob, readback,
                   partitions, pond_df, rayVars, connVars, timerVars>>

\* 6_smallpond: df = sp.read_parquet("minilob.parquet");
\* df = df.repartition(2, by_rows=True)
Repartition ==
    /\ pc = "repartition"
    /\ partitions' \in repartition_by_rows(minilob_parquet, 2)
    /\ log' = Append(log, Ran("repartition", "none"))
    /\ pc' = "partial_sql"
    /\ UNCHANGED <<s3, rel, rel2, transformed_relation, minilob, readback,
                   minilob_parquet, pond_df, rayVars, connVars, timerVars>>

\* 6_smallpond: df = sp.partial_sql("SELECT symbol, min(buyside_price),
\* max(buyside_price) FROM {0} GROUP BY symbol", df); df.to_pandas()
PartialSql ==
    /\ pc = "partial_sql"
    /\ LET exc == GlobOutcome(Succeeded("unhive"))
       IN  /\ log' = Append(log, Ran("partial_sql", exc))
           /\ pond_df' = IF exc = "none" THEN partial_sql(partitions)
                       ELSE pond_df
    /\ pc' = "shown"
    /\ UNCHANGED <<s3, rel, rel2, transformed_relation, minilob, readback,
                   minilob_parquet, partitions, rayVars, connVars, timerVars>>

NextEtl ==
    \/ ReadParquet
    \/ FilterRel
    \/ TestQuery
    \/ CopyToHive
    \/ CheckHive
    \/ Unhive
    \/ Repartition
    \/ PartialSql

SpecEtl == InitEtl /\ [][NextEtl]_vars

(***************************************************************************)
(* The connections: the cells that make one and the cells that use one.    *)
(* Every notebook has a kernel of its own and runs its cells from top to   *)
(* bottom; the notebooks run in any order.                                 *)
(***************************************************************************)
InitConn ==
    /\ pc = "cells"
    /\ IdleEtl
    /\ IdleRay
    /\ NoConnection
    /\ NoTimer

ThisCell(nb) == Cells[nb][at[nb]]

\* The cell binds `name` to the connection c, which is new; when making it
\* raised, the name is left as it was.
Bind(nb, c) ==
    /\ conns' = IF c.err = "none" THEN Append(conns, c) ELSE conns
    /\ names' = IF c.err = "none"
                THEN [names EXCEPT ![nb][ThisCell(nb).name] = Len(conns) + 1]
                ELSE names
    /\ at' = [at EXCEPT ![nb] = @ + 1]
    /\ UNCHANGED <<queries, pc, etlVars, rayVars, timerVars>>

\* conn = create_connection()
CreateConnectionCell(nb) ==
    /\ at[nb] \in DOMAIN Cells[nb]
    /\ ThisCell(nb).do = "create_connection"
    /\ Bind(nb, create_connection)

\* conn2 = duckdb.connect(":memory:")
ConnectCell(nb) ==
    /\ at[nb] \in DOMAIN Cells[nb]
    /\ ThisCell(nb).do = "connect"
    /\ Bind(nb, duckdb_connect)

\* conn.sql("SELECT ... FROM read_parquet(...)"): the query runs on the
\* connection that the name is bound to.
SqlCell(nb) ==
    /\ at[nb] \in DOMAIN Cells[nb]
    /\ ThisCell(nb).do = "sql"
    /\ names[nb][ThisCell(nb).name] # 0
    /\ queries' = queries \cup {[nb   |-> nb,
                                 cell |-> at[nb],
                                 on   |-> names[nb][ThisCell(nb).name],
                                 path |-> ThisCell(nb).path]}
    /\ at' = [at EXCEPT ![nb] = @ + 1]
    /\ UNCHANGED <<conns, names, pc, etlVars, rayVars, timerVars>>

NextConn ==
    \/ \E nb \in Notebooks : CreateConnectionCell(nb)
    \/ \E nb \in Notebooks : ConnectCell(nb)
    \/ \E nb \in Notebooks : SqlCell(nb)

SpecConn == InitConn /\ [][NextConn]_vars

(***************************************************************************)
(* with Print_time(): ... as the with statement runs it: __enter__, the    *)
(* body, __exit__ with the exception of the body if it raised, and the     *)
(* exception raised again unless __exit__ returned a true value.           *)
(***************************************************************************)
BodyExceptions == {"KeyError", "OSError"}

InitTimer ==
    /\ pc = "with"
    /\ IdleEtl
    /\ IdleRay
    /\ NoConnection
    /\ NoTimer

\* time.perf_counter() moves on, in a block and between blocks.
Tick ==
    /\ clock < MaxClock
    /\ clock' = clock + 1
    /\ UNCHANGED <<phase, timer, stdout, body_exc, caller_exc, exits, blocks,
                   pc, etlVars, rayVars, connVars>>

\* with Print_time(): a new object, and __enter__ on it
WithEnter ==
    /\ phase = "out"
    /\ blocks < MaxBlocks
    /\ timer' = Print_time_enter(<<>>, clock).self
    /\ phase' = "body"
    /\ body_exc' = "none"
    /\ caller_exc' = "none"
    /\ exits' = 0
    /\ blocks' = blocks + 1
    /\ UNCHANGED <<clock, stdout, pc, etlVars, rayVars, connVars>>

\* The body comes to its end.
BodyReturns ==
    /\ phase = "body"
    /\ phase' = "exit"
    /\ UNCHANGED <<clock, timer, stdout, body_exc, caller_exc, exits, blocks,
                   pc, etlVars, rayVars, connVars>>

\* The body raises, as the per-record pipeline does on an unknown symbol.
BodyRaises(exc) ==
    /\ phase = "body"
    /\ body_exc' = exc
    /\ phase' = "exit"
    /\ UNCHANGED <<clock, timer, stdout, caller_exc, exits, blocks,
                   pc, etlVars, rayVars, connVars>>

\* __exit__ is called; the exception of the body goes on to the caller
\* unless the value returned is true.
WithExit ==
    /\ phase = "exit"
    /\ LET c == Print_time_exit(timer, clock, body_exc)
       IN  /\ timer' = c.self
           /\ stdout' = stdout \o c.out
           /\ caller_exc' = IF body_exc # "none" /\ ~truthy(c.ret)
                            THEN body_exc ELSE "none"
    /\ exits' = exits + 1
    /\ phase' = "out"
    /\ UNCHANGED <<clock, body_exc, blocks, pc, etlVars, rayVars, connVars>>

NextTimer ==
    \/ Tick
    \/ WithEnter
    \/ BodyReturns
    \/ \E exc \in BodyExceptions : BodyRaises(exc)
    \/ WithExit

SpecTimer == InitTimer /\ [][NextTimer]_vars

(***************************************************************************)
(* Claims about the transforms of 5_etl_with_ray_data (under SpecRay).     *)
(***************************************************************************)
\* The outputs that the three strategies have produced for record i.
Outputs(i) == {o \in {out_rec[i], out_pd[i], out_pl[i]} : IsRow(o)}

Mean(r) == Over(Plus(r.buyside_price, r.sellside_price), 2)

TimeOfDay(r) == Num(r.time_stamp.n % ns_per_day, ns_per_day)

\* C1: in every transform path the midline of a record is
\* (buyside_price + sellside_price) / 2.
C1_MidlineIsMean ==
    \A i \in DOMAIN dataset : \A o \in Outputs(i) :
        /\ "midline" \in DOMAIN o
        /\ o.midline = Mean(dataset[i])

\* C2: for the same input record the per-record chain, the pandas batch and
\* the polars batch produce the same output record: the same columns with
\* the same values.
C2_StrategiesAgree ==
    \A i \in DOMAIN dataset :
        (IsRow(out_rec[i]) /\ IsRow(out_pd[i]) /\ IsRow(out_pl[i]))
        => (out_rec[i] = out_pd[i] /\ out_pd[i] = out_pl[i])

\* C3: in every transform path ts_cos and ts_sin are the cosine and the sine
\* of the angle 2*pi*fraction, fraction = (time_stamp mod ns_per_day) /
\* ns_per_day.
C3_AngleIsDayFraction ==
    \A i \in DOMAIN dataset : \A o \in Outputs(i) :
        /\ "ts_cos" \in DOMAIN o
        /\ "ts_sin" \in DOMAIN o
        /\ o.ts_cos = np_cos(TwoPiTimes(TimeOfDay(dataset[i])))
        /\ o.ts_sin = np_sin(TwoPiTimes(TimeOfDay(dataset[i])))

Unknown(i) == dataset[i].symbol.s \notin DOMAIN Symbols

\* C9: re-encoding a record whose symbol the Symbols table does not hold
\* either raises or yields a null symbol; no path yields a code for it or
\* leaves the string in place.
C9_UnknownSymbolFailsOrNull ==
    \A i \in DOMAIN dataset :
        Unknown(i) =>
            \A o \in {out_rec[i], out_pd[i], out_pl[i]} :
                o = Pending \/ IsFailure(o) \/ (IsRow(o) /\ o.symbol = Null)

\* A record of an unknown symbol has gone through all three strategies: the
\* per-record chain raised, both batch transforms gave a null.
C9_Witness ==
    \E i \in DOMAIN dataset :
        /\ Unknown(i)
        /\ IsFailure(out_rec[i])
        /\ IsRow(out_pd[i]) /\ out_pd[i].symbol = Null
        /\ IsRow(out_pl[i]) /\ out_pl[i].symbol = Null

\* C10: each of encode_timestamp, add_midline, encode_symbol and
\* transform_pandas_batch leaves the object it was given unchanged.
C10_StagesLeaveArgument ==
    \A c \in calls :
        c.stage \in {"encode_timestamp", "add_midline", "encode_symbol",
                     "transform_pandas_batch"}
        => c.after = c.before

(***************************************************************************)
(* Claims about the ETL of 3_etl_with_duckdb_part_2 (under SpecEtl).       *)
(***************************************************************************)
\* The source row that a row derives from.
Source(x) == CHOOSE y \in s3 : y.src = x.src

Unset(x) == x.buyside_price_00 = Sentinel \/ x.sellside_price_00 = Sentinel

HiveRows == UNION {minilob[p] : p \in DOMAIN minilob}

Filtered == Succeeded("filter")

Written == Succeeded("write")

\* C4: no row of the minilob hive derives from a source row whose
\* buyside_price_00 or sellside_price_00 is the sentinel: the filter leaves
\* every such row out of rel2, and only rows of rel2 are written.
C4_NoSentinelRowWritten ==
    /\ Filtered => \A x \in rel2 : ~Unset(x)
    /\ \A w \in HiveRows :
          /\ ~Unset(Source(w))
          /\ \E x \in rel2 : x.src = w.src

\* The hive holds rows although the source held a row with an unset price.
C4_Witness ==
    /\ Written
    /\ HiveRows # {}
    /\ \E x \in s3 : Unset(x)

\* C5: a row of rel is in rel2 if and only if neither buyside_price_00 nor
\* sellside_price_00 is the sentinel.
C5_KeptIffSet ==
    Filtered => \A x \in rel : (x \in rel2 <=> ~Unset(x))

\* C6: the projection gives, for every row, buyside_price =
\* buyside_price_00 / 10^5 and sellside_price = sellside_price_00 / 10^5,
\* with time_stamp and symbol as they were.
C6_PricesOverTenToTheFifth ==
    \A w \in transformed_relation :
        /\ w.buyside_price = DivideBy(Source(w).buyside_price_00, 100000)
        /\ w.sellside_price = DivideBy(Source(w).sellside_price_00, 100000)
        /\ w.time_stamp = Source(w).time_stamp
        /\ w.symbol = Source(w).symbol

\* A read of the hive returns the rows of `written`, each with its symbol.
SameRowsAndSymbols(read, written) ==
    /\ Cardinality(read) = Cardinality(written)
    /\ \A w \in written : \E x \in read :
          x.src = w.src /\ x.symbol = w.symbol

\* C7: reading minilob back with hive_partitioning=true returns as many rows
\* as were written, each with the symbol it was written with, and so does
\* minilob.parquet after the copy of the hive into it; a read of the hive
\* raises only when no file was written.
C7_HiveRoundTrip ==
    /\ Succeeded("check")
          => SameRowsAndSymbols(readback, transformed_relation)
    /\ Succeeded("unhive")
          => SameRowsAndSymbols(minilob_parquet, transformed_relation)
    /\ \A k \in DOMAIN log :
          (log[k].stmt \in {"check", "unhive"} /\ log[k].exc # "none")
              => HiveRows = {}

\* Rows of two symbols went through the hive into minilob.parquet.
C7_Witness ==
    /\ Succeeded("check")
    /\ Succeeded("unhive")
    /\ \E x \in minilob_parquet, y \in minilob_parquet : x.symbol # y.symbol

\* C8: the partitions of the hive are those of the symbols met in the
\* filtered relation; every written row lies in the partition of its own
\* symbol and in no other; no partition is empty.
C8_PartitionsAreObservedSymbols ==
    Written =>
        /\ \A p \in DOMAIN minilob : PathKey(p) = Spelled("symbol")
        /\ {PathValue(p) : p \in DOMAIN minilob}
              = {x.symbol.s : x \in rel2}
        /\ \A w \in transformed_relation : \A p \in DOMAIN minilob :
              WithoutColumn(w, "symbol") \in minilob[p]
                 <=> p = HivePath("symbol", w.symbol.s)
        /\ \A p \in DOMAIN minilob : minilob[p] # {}

\* The hive is written for a source that held a symbol of which no row
\* passed the filter.
C8_Witness ==
    /\ Written
    /\ DOMAIN minilob # {}
    /\ \E x \in s3 : \A y \in rel2 : y.symbol # x.symbol

(***************************************************************************)
(* More claims about the transforms (under SpecRay).                       *)
(***************************************************************************)
Derived == {"ts_cos", "ts_sin", "midline"}

\* C11: each strategy changes only the declared derive set: the output of a
\* record has time_stamp, buyside_price and sellside_price as they were,
\* symbol replaced by its code, and exactly the three added columns ts_cos,
\* ts_sin and midline.
C11_OnlyDeriveSetChanges ==
    \A i \in DOMAIN dataset : \A o \in Outputs(i) :
        /\ DOMAIN o = DOMAIN dataset[i] \cup Derived
        /\ o.time_stamp = dataset[i].time_stamp
        /\ o.buyside_price = dataset[i].buyside_price
        /\ o.sellside_price = dataset[i].sellside_price
        /\ ~Unknown(i) => o.symbol = Whole(Symbols[dataset[i].symbol.s])

\* The columns of an output that hold the encoded time.
Encoded(o) == DOMAIN o \ (DOMAIN dataset[1] \cup {"midline"})

SamePair(o1, o2) ==
    (IsRow(o1) /\ IsRow(o2)) =>
        /\ Encoded(o1) = Encoded(o2)
        /\ \A c \in Encoded(o1) : o1[c] = o2[c]

ADayApart(i, j) ==
    dataset[j].time_stamp.n = dataset[i].time_stamp.n + ns_per_day

\* C12: the encoding has a period of one day: records whose time_stamps are
\* t and t + ns_per_day get the same fraction, hence equal (ts_cos, ts_sin).
C12_PeriodOfADay ==
    \A i \in DOMAIN dataset, j \in DOMAIN dataset :
        ADayApart(i, j) =>
            /\ SamePair(out_rec[i], out_rec[j])
            /\ SamePair(out_pd[i], out_pd[j])
            /\ SamePair(out_pl[i], out_pl[j])

\* Two records a day apart are encoded by the per-record chain and by the
\* pandas batch.
C12_Witness ==
    \E i \in DOMAIN dataset, j \in DOMAIN dataset :
        /\ ADayApart(i, j)
        /\ IsRow(out_rec[i]) /\ IsRow(out_rec[j])
        /\ IsRow(out_pd[i]) /\ IsRow(out_pd[j])
        /\ out_rec[i].ts_cos = out_pd[j].ts_cos

\* The records of f, counted.
BagOf(f) == [x \in {f[i] : i \in DOMAIN f} |->
                Cardinality({i \in DOMAIN f : f[i] = x})]

\* The chain of the three map stages on one record.
PerRecord(r) == encode_symbol(add_midline(encode_timestamp(r).ret).ret)

RecEnded == pc # "rec"

PandasEnded == pc \in {"polars", "done"}

PolarsEnded == pc = "done"

\* C14: the order in which records and blocks are taken, and where the
\* dataset is cut into blocks, do not show in the result: a pipeline that
\* ended holds the same records, each as often, as the transform gives for the
\* whole dataset in one piece, and the per-record pipeline fails exactly when
\* a record carries an unknown symbol.
C14_OrderDoesNotShow ==
    /\ RecEnded =>
          /\ RecFailed <=> \E i \in DOMAIN dataset : Unknown(i)
          /\ ~RecFailed =>
                BagOf(out_rec) =
                    BagOf([i \in DOMAIN dataset |-> PerRecord(dataset[i]).ret])
    /\ PandasEnded =>
          BagOf(out_pd) = BagOf(transform_pandas_batch(dataset).ret)
    /\ PolarsEnded =>
          BagOf(out_pl) = BagOf(transform_polars_batch(dataset).ret)

\* All three pipelines ended on a dataset of two different records cut into
\* two blocks, the later record first.
C14_Witness ==
    /\ PolarsEnded
    /\ ~RecFailed
    /\ Len(dataset) >= 2
    /\ cut < Len(dataset)
    /\ dataset[1] # dataset[2]
    /\ dataset[1].time_stamp.n > dataset[2].time_stamp.n

\* C18: every stage gives one record for each record it takes: a pipeline
\* has returned as many records as it has taken, a pipeline that ended without
\* raising holds one row for every record of dataset, and dataset holds at
\* most 100,000 records.
C18_OneRecordEach ==
    /\ Len(dataset) <= 100000
    /\ emitted.rec = Cardinality({i \in DOMAIN dataset : IsRow(out_rec[i])})
    /\ emitted.pandas =
          Cardinality({i \in DOMAIN dataset : out_pd[i] # Pending})
    /\ emitted.polars =
          Cardinality({i \in DOMAIN dataset : out_pl[i] # Pending})
    /\ \A i \in DOMAIN dataset :
          /\ out_pd[i] # Pending => IsRow(out_pd[i])
          /\ out_pl[i] # Pending => IsRow(out_pl[i])
          /\ out_rec[i] # Pending /\ ~Unknown(i) => IsRow(out_rec[i])
    /\ (RecEnded /\ ~RecFailed) => emitted.rec = Len(dataset)
    /\ PandasEnded => emitted.pandas = Len(dataset)
    /\ PolarsEnded => emitted.polars = Len(dataset)

\* The three pipelines ended on a dataset of several records, one of them
\* with an unknown symbol, so the per-record pipeline raised.
C18_Witness ==
    /\ PolarsEnded
    /\ Len(dataset) >= 2
    /\ \E i \in DOMAIN dataset : Unknown(i)
    /\ emitted.rec < emitted.pandas
    /\ emitted.polars = Len(dataset)

Codes == {Symbols[x] : x \in DOMAIN Symbols}

\* C19: Symbols gives the six symbols of the ETL, and no other, the codes 0
\* to 5, each to one symbol; a record with one of the six symbols is never
\* failed on, it gets the code of its symbol, and two records get the same
\* code only when they have the same symbol.
C19_SymbolsOneToOne ==
    /\ DOMAIN Symbols = {symbols[k] : k \in DOMAIN symbols}
    /\ Codes = 0..5
    /\ \A x \in DOMAIN Symbols, y \in DOMAIN Symbols :
          Symbols[x] = Symbols[y] => x = y
    /\ \A i \in DOMAIN dataset :
          ~Unknown(i) =>
              /\ ~IsFailure(out_rec[i])
              /\ \A o \in Outputs(i) :
                    o.symbol = Whole(Symbols[dataset[i].symbol.s])
    /\ \A i \in DOMAIN dataset, j \in DOMAIN dataset :
          \A o \in Outputs(i), q \in Outputs(j) :
              (o.symbol # Null /\ o.symbol = q.symbol) =>
                  dataset[i].symbol = dataset[j].symbol

\* Two records with different symbols of the table went through all three
\* pipelines and got different codes.
C19_Witness ==
    \E i \in DOMAIN dataset, j \in DOMAIN dataset :
        /\ ~Unknown(i) /\ ~Unknown(j)
        /\ dataset[i].symbol # dataset[j].symbol
        /\ IsRow(out_rec[i]) /\ IsRow(out_rec[j])
        /\ out_rec[i].symbol # out_rec[j].symbol
        /\ IsRow(out_pl[i]) /\ IsRow(out_pl[j])

(***************************************************************************)
(* More claims about the ETL and the smallpond query (under SpecEtl).      *)
(***************************************************************************)
where_buyside(r) == {x \in r : Less(x.buyside_price_00.d, Sci(92, 12))}

where_sellside(r) == {x \in r : Less(x.sellside_price_00.d, Sci(92, 12))}

\* C13: the filter with both tests in one WHERE keeps the rows that a filter
\* on buyside_price_00 followed by a filter on sellside_price_00 keeps, and
\* those that the two filters keep in the other order.
C13_FiltersCompose ==
    Filtered =>
        /\ rel2 = where_sellside(where_buyside(rel))
        /\ rel2 = where_buyside(where_sellside(rel))

\* The filter ran on a relation with a row that fails the first test only
\* and a row that fails the second test only.
C13_Witness ==
    /\ Filtered
    /\ \E x \in rel : x \notin where_buyside(rel) /\ x \in where_sellside(rel)
    /\ \E x \in rel : x \in where_buyside(rel) /\ x \notin where_sellside(rel)

Failed(k) == log[k].exc # "none"

C16_WriteStopsAtCap ==
    Cardinality(DOMAIN minilob) <= 1

\* The rows of minilob.parquet with the symbol sym.
OfSymbol(sym) == {x \in minilob_parquet : x.symbol = sym}

\* C17: the smallpond query returns one row for every symbol of
\* minilob.parquet and no other row, with the least and the greatest
\* buyside_price of all rows of the symbol, however the rows were split over
\* the two partitions.
C17_OneRowPerSymbol ==
    Succeeded("partial_sql") =>
        /\ {g.symbol : g \in pond_df} = {x.symbol : x \in minilob_parquet}
        /\ \A g \in pond_df :
              /\ Cardinality({h \in pond_df : h.symbol = g.symbol}) = 1
              /\ g.min_buyside_price =
                    sql_min({x.buyside_price : x \in OfSymbol(g.symbol)})
              /\ g.max_buyside_price =
                    sql_max({x.buyside_price : x \in OfSymbol(g.symbol)})

(***************************************************************************)
(* The claim about the connections (under SpecConn).                       *)
(***************************************************************************)
SetUpForS3 == <<<<"install_extension", "httpfs">>,
                <<"load_extension", "httpfs">>,
                <<"CREATE SECRET", "secret">>>>

\* C20: a query on an s3:// path runs on a connection on which httpfs was
\* installed, then loaded, and then the secret created, and nothing else
\* done; a connection from a plain duckdb.connect runs queries on local
\* paths only; the secret is created once on a connection, every call of
\* create_connection giving a connection of its own.
C20_S3OnlyOnSetUpConnections ==
    /\ \A q \in queries :
          /\ q.on \in DOMAIN conns
          /\ q.path = "s3" =>
                /\ conns[q.on].did = SetUpForS3
                /\ "httpfs" \in conns[q.on].loaded
                /\ conns[q.on].secrets = {"secret"}
          /\ conns[q.on].did = <<>> => q.path = "local"
    /\ \A k \in DOMAIN conns :
          /\ conns[k].did \in {<<>>, SetUpForS3}
          /\ conns[k].err = "none"
    /\ \A nb \in Notebooks, mb \in Notebooks :
          \A x \in DOMAIN names[nb], y \in DOMAIN names[mb] :
              (names[nb][x] # 0 /\ names[nb][x] = names[mb][y])
                  => (nb = mb /\ x = y)
    /\ Len(conns) =
          Cardinality({<<nb, i>> \in Notebooks \X (1..4) :
                          /\ i \in DOMAIN Cells[nb]
                          /\ i < at[nb]
                          /\ Cells[nb][i].do # "sql"})

\* The first notebook ran its two queries on S3 on two connections, conn
\* having been assigned again in between, and a plain connection ran a query
\* on the local hive.
C20_Witness ==
    /\ \E q \in queries, r \in queries :
          /\ q.nb = "basics" /\ r.nb = "basics"
          /\ q.path = "s3" /\ r.path = "s3"
          /\ q.on # r.on
    /\ \E q \in queries : q.path = "local" /\ conns[q.on].did = <<>>

(***************************************************************************)
(* The time of day of any time_stamp (under SpecRay).                      *)
(***************************************************************************)

\* The angle is 2*pi times a fraction k / ns_per_day with k in
\* 0 .. ns_per_day - 1.
InFirstTurn(a) ==
    /\ a.unit = "turn"
    /\ 0 <= a.x.n
    /\ a.x.n < a.x.d
    /\ ns_per_day % a.x.d = 0

\* C21: for every time_stamp, the negative ones too, encode_timestamp and
\* transform_pandas_batch take a time of day in 0 .. ns_per_day - 1, so the
\* fraction lies in [0, 1) and the angle of ts_cos and ts_sin in [0, 2*pi).
C21_TimeOfDayInRange ==
    \A i \in DOMAIN dataset : \A o \in {out_rec[i], out_pd[i]} :
        IsRow(o) =>
            /\ o.ts_cos = np_cos(o.ts_cos.a)
            /\ o.ts_sin = np_sin(o.ts_cos.a)
            /\ InFirstTurn(o.ts_cos.a)
            /\ o.ts_cos.a.x =
                  Num(py_mod(dataset[i].time_stamp.n, ns_per_day), ns_per_day)

\* A record with a negative time_stamp was encoded by the per-record chain
\* and by the pandas batch.
C21_Witness ==
    \E i \in DOMAIN dataset :
        /\ dataset[i].time_stamp.n < 0
        /\ IsRow(out_rec[i])
        /\ IsRow(out_pd[i])
        /\ out_rec[i].ts_cos.a.x.n > 0

(***************************************************************************)
(* The claim about Print_time (under SpecTimer).                           *)
(***************************************************************************)

\* C22: when the body of a with Print_time() block has raised, __exit__ has
\* run once when the block is left: the object holds end and elapsed =
\* end - start, the time was printed, and the caller gets the exception of
\* the body; __exit__ has not run before the body is over.
C22_ExitRunsAndExceptionPropagates ==
    /\ phase \in {"body", "exit"} => exits = 0
    /\ (phase = "out" /\ body_exc # "none") =>
          /\ exits = 1
          /\ DOMAIN timer = {"start", "end", "elapsed"}
          /\ timer.end <= clock
          /\ timer.elapsed = timer.end - timer.start
          /\ timer.elapsed >= 0
          /\ Len(stdout) = blocks
          /\ stdout[Len(stdout)] = TimeTaken(timer.elapsed)
          /\ caller_exc = body_exc

\* The second block was left after its body had raised KeyError, some time
\* after it was entered.
C22_Witness ==
    /\ phase = "out"
    /\ blocks = 2
    /\ body_exc = "KeyError"
    /\ caller_exc = "KeyError"
    /\ timer.elapsed > 0
    /\ exits = 1

=============================================================================
